---- MODULE Spec2Model ----
(***************************************************************************)
(* Job orchestration of survey-mapper (app/api/async_routes.py): the jobs  *)
(* table, the RUNNING_JOBS registry of cancellation events, the cancel and *)
(* cancel-all handlers, the background run run_survey_mapper with its      *)
(* fail-fast log watcher, and the retrying status write                    *)
(* update_status_safe.                                                     *)
(*                                                                         *)
(* Texts (error messages, log messages) are sequences of fragments, so     *)
(* that "contains" and "is empty" are decidable; Python's None is the      *)
(* value None below, the empty string is <<>>.                             *)
(***************************************************************************)
EXTENDS Integers, Sequences, FiniteSets, TLC

\* ------------------------------------------------------------------ bounds
MaxClock == 2

\* job ids (uuid4 strings in the code) that clients submit or ask about
JobIds == {"j1", "j2"}

\* the ids submitted where one run is followed in full detail
SoloIds == {"j1"}

\* ------------------------------------------------------- program constants
\* update_status_safe(..., retries: int = 6, ...)
retries == 6

\* logging.WARNING, logging.ERROR as ranks (INFO < WARNING < ERROR < CRITICAL)
LvInfo == "INFO"
LvWarning == "WARNING"
LvError == "ERROR"
LvCritical == "CRITICAL"

\* ------------------------------------------------------------------ values
None == <<"<None>">>

\* Python truthiness of an Optional[str]
Truthy(s) == s # None /\ s # <<>>

\* Python's `a or b`
PyOr(a, b) == IF Truthy(a) THEN a ELSE b

\* substring test on texts built of fragments
Contains(text, frag) == \E i \in 1..Len(text) : text[i] = frag

\* "; ".join(errors)
RECURSIVE Join(_)
Join(errors) ==
    IF Len(errors) = 0 THEN <<>>
    ELSE IF Len(errors) = 1 THEN <<errors[1]>>
    ELSE <<errors[1], "; ">> \o Join(Tail(errors))

\* the statuses the code writes
Terminal == {"canceled", "failed", "complete"}

\* ------------------------------------------------------------------- state
VARIABLES
    jobs,          \* the jobs table: job_id -> row (rows exist once inserted)
    RUNNING_JOBS,  \* keys of the registry dict
    cancel_event,  \* the threading.Event created for each job id: is it set
    pc,            \* position of each job's background run
    watcher,       \* FailFastLogWatcher._error_msg of each job's watcher
    log_has_error, \* the job's active log file holds a line the rescan matches
    invoked,       \* per job: how often each external step was invoked
    req,           \* the cancel / cancel-all request being handled
    resp,          \* the last response of a handler
    clock,         \* datetime.now()
    upd,           \* an update_status_safe call observed attempt by attempt
    \* history, read by the properties only:
    sig_pc,        \* where the job's run stood when its Event was first set
    last_write,    \* the last status write the job's run issued; did it land
    step_out,      \* what the external steps of the job's run handed back
    swept,         \* the job ids cancel_all_jobs has answered with
    wop,           \* the calls made on the watcher that is followed alone
    classifier,    \* a job's logs directory and what the log classifier made of it
    scan_read      \* history: could the run's last rescan read the log file

vars == <<jobs, RUNNING_JOBS, cancel_event, pc, watcher, log_has_error,
          invoked, req, resp, clock, upd, sig_pc, last_write, step_out,
          swept, wop, classifier, scan_read>>

\* the history variables, and the logs directory no handler writes to
hist == <<sig_pc, last_write, step_out, swept, wop, classifier, scan_read>>

\* ----------------------------------------------------------- status store
\* INSERT INTO jobs (job_id, status, created_at, updated_at, error, output_dir)
InsertJob(tbl, job_id, now) ==
    (job_id :> [status |-> "queued", created_at |-> now, updated_at |-> now,
                error |-> None, result_zip_path |-> None]) @@ tbl

\* UPDATE jobs SET status = ?, updated_at = ?, error = ? WHERE job_id = ?
SqlUpdateStatus(tbl, job_id, status, now_, error) ==
    IF job_id \in DOMAIN tbl
    THEN [tbl EXCEPT ![job_id].status = status,
                     ![job_id].updated_at = now_,
                     ![job_id].error = error]
    ELSE tbl

\* fault seeded for C10: the UPDATE of the cancel handlers without its
\* "AND status IN ('queued','processing')"
SqlCancelUpdateUnguarded(tbl, job_id, now_) ==
    IF job_id \in DOMAIN tbl
    THEN [tbl EXCEPT ![job_id].status = "cancelling",
                     ![job_id].updated_at = now_]
    ELSE tbl

\* UPDATE jobs SET status = 'cancelling', updated_at = ?
\*  WHERE job_id = ? AND status IN ('queued','processing')
SqlCancelUpdate(tbl, job_id, now_) ==
    IF job_id \in DOMAIN tbl /\ tbl[job_id].status \in {"queued", "processing"}
    THEN [tbl EXCEPT ![job_id].status = "cancelling",
                     ![job_id].updated_at = now_]
    ELSE tbl

\* UPDATE jobs SET result_zip_path = ?, updated_at = ? WHERE job_id = ?
SqlUpdateZip(tbl, job_id, path, now_) ==
    IF job_id \in DOMAIN tbl
    THEN [tbl EXCEPT ![job_id].result_zip_path = path,
                     ![job_id].updated_at = now_]
    ELSE tbl

\* update_status_safe as its caller sees it: `fails` is the number of
\* consecutive attempts the store refuses; the write lands at the first
\* attempt that succeeds and is swallowed when all `retries` attempts fail.
update_status_safe(tbl, job_id, status, error, now_, fails) ==
    IF fails >= retries THEN tbl
    ELSE SqlUpdateStatus(tbl, job_id, status, now_, error)

\* What the surroundings of a run may do to it: `store` is the number of
\* consecutive attempts of a status write the store refuses, `store_ok`
\* whether a statement that does not retry succeeds, `exc` the texts of the
\* exceptions raised inside the run, `setup_ok` whether the logger and watcher
\* setup succeeds, `elog` what the engine logs during a step, `readable`
\* whether the watcher can read the log file.
FullEnv ==
    [store |-> {0, retries}, store_ok |-> BOOLEAN,
     exc |-> {<<"database is locked">>}, setup_ok |-> BOOLEAN,
     elog |-> {"none", "event", "raw"}, readable |-> BOOLEAN]

\* surroundings in which the store and the file system never fail
CalmEnv ==
    [store |-> {0}, store_ok |-> {TRUE}, exc |-> {}, setup_ok |-> {TRUE},
     elog |-> {"none", "event"}, readable |-> {TRUE}]

\* ------------------------------------------------------ fail-fast watcher
\* fragments in which ERROR_WORD (\berror\b, any case) finds a match
ErrorWordFrags ==
    { "Fail-fast due to error in logs: ",
      "Error detected in log file",
      "Internal error - export_feature_collections did not return a dict",
      "ERROR 000210: Cannot create output",
      "engine error" }

\* fragments RE_ARCGIS_ERR matches when they open the text
ArcgisFrags == { "ERROR 000210: Cannot create output" }

ERROR_WORD(text) == \E i \in 1..Len(text) : text[i] \in ErrorWordFrags

RE_ARCGIS_ERR(text) == Len(text) > 0 /\ text[1] \in ArcgisFrags

\* fault seeded for C13: "levelno == logging.ERROR"
SevereErrorOnly(level) == level = LvError

\* record.levelno >= logging.ERROR
Severe(level) == level \in {LvError, LvCritical}

\* FailFastLogWatcher.emit
emit(w, level, msg) ==
    IF Severe(level) \/ RE_ARCGIS_ERR(msg) \/ ERROR_WORD(msg)
    THEN PyOr(w, msg)
    ELSE w

\* the line the job's file handler appends for the same record,
\* "%(asctime)s | %(levelname)s | %(name)s | %(message)s": does the log file
\* afterwards hold a match of the rescan's patterns
FileAfter(has_error, level, msg) ==
    has_error \/ level = LvError \/ ERROR_WORD(msg)

\* fault seeded for C33: the rescan never looks at the file
scan_file_never(w, has_error, readable) == w

\* fault seeded for C36: a failed read latches the watcher
scan_file_strict(w, has_error, readable) ==
    IF ~readable \/ has_error THEN PyOr(w, <<"Error detected in log file">>)
    ELSE w

\* does the rescan get to the file's text: poll_file is
\* `poll_file and self.log_file is not None` and the rescan returns at once
\* without it; otherwise read_text may raise, which the rescan swallows
CanScan(log_file, read_ok) == log_file # None /\ read_ok

\* FailFastLogWatcher.scan_file_once; `readable` is whether read_text succeeds
scan_file_once(w, has_error, readable) ==
    IF ~readable THEN w
    ELSE IF has_error THEN PyOr(w, <<"Error detected in log file">>)
    ELSE w

\* msg of _abort_if_error
AbortMsg(prefix, error_message) ==
    <<prefix, "Fail-fast due to error in logs: ">> \o error_message

\* --------------------------------------------------------- external engine
\* what a step function may hand back: a dict (with or without "success",
\* with or without "errors") or something that is no dict
StepResults ==
    { [isdict |-> TRUE,  success |-> "True",    errors |-> [kind |-> "list", items |-> <<>>]],
      [isdict |-> TRUE,  success |-> "False",   errors |-> [kind |-> "list", items |-> <<"grid failed">>]],
      [isdict |-> TRUE,  success |-> "False",   errors |-> [kind |-> "list", items |-> <<"e1", "e2">>]],
      [isdict |-> TRUE,  success |-> "False",   errors |-> [kind |-> "list", items |-> <<>>]],
      [isdict |-> TRUE,  success |-> "False",   errors |-> [kind |-> "str", items |-> <<"e1">>]],
      [isdict |-> TRUE,  success |-> "False",   errors |-> [kind |-> "missing", items |-> <<>>]],
      [isdict |-> TRUE,  success |-> "missing", errors |-> [kind |-> "missing", items |-> <<>>]],
      [isdict |-> TRUE,  success |-> "missing", errors |-> [kind |-> "list", items |-> <<>>]],
      [isdict |-> FALSE, success |-> "missing", errors |-> [kind |-> "missing", items |-> <<>>]] }

\* fault seeded for C4: every result counts as a success
GetSuccessAlways(r) == TRUE

\* fault seeded for C25: the test is whether the key is there
GetSuccessPresent(r) == r.success # "missing"

\* step.get("success", False)
GetSuccess(r) == r.success = "True"

\* errors = step2.get("errors", ["Export failed"]); a str is wrapped in a list
GetErrors(r) ==
    IF r.errors.kind = "missing" THEN <<"Export failed">> ELSE r.errors.items

\* what the engine logs while a step runs: "none", an error through the job
\* logger ("event"), or a line written to the log file past the logger ("raw")
EngineMsg == <<"ERROR 000210: Cannot create output">>

WatcherAfterStep(w, elog) ==
    IF elog = "event" THEN emit(w, LvError, EngineMsg) ELSE w

FileAfterStep(has_error, elog) ==
    IF elog = "event" THEN FileAfter(has_error, LvError, EngineMsg)
    ELSE IF elog = "raw" THEN TRUE
    ELSE has_error

\* -------------------------------------------------------------------- Init
NoReq == [op |-> "none", job |-> "", phase |-> "idle", cancelled |-> {}]

NoResp == [op |-> "none", code |-> 0, job |-> "", status |-> "", count |-> 0,
           job_ids |-> {}, error |-> None, logs |-> "", items |-> <<>>]

NoUpd == [pc |-> "idle", job_id |-> "", status |-> "", error |-> None,
          now_ |-> 0, attempt |-> 0, tries |-> 0, landed |-> FALSE]

NoWrite == [status |-> "", error |-> None, landed |-> FALSE, exc |-> None]

NoOut == [step |-> 0, success |-> "", errors |-> <<>>, latched |-> None]

\* history of a step's return: which step, its "success" entry, its
\* "errors" entry when that is a list, and the watcher's error_message then
Handed(k, r, w) ==
    [step |-> k,
     success |-> IF r.isdict THEN r.success ELSE "nodict",
     errors |-> IF r.isdict /\ r.errors.kind = "list" THEN r.errors.items ELSE <<>>,
     latched |-> w]

Raised(k, w) == [step |-> k, success |-> "raised", errors |-> <<>>, latched |-> w]

NoSteps == [step1 |-> 0, step2 |-> 0, zip |-> 0]

\* LogsByLevel(info=[], warning=[], error=[])
EmptyLogs == [info |-> <<>>, warning |-> <<>>, error |-> <<>>, note |-> None]

\* no logs directory, nothing collected, nothing filtered
NoLogs == [dir |-> FALSE, files |-> <<>>, phase |-> "writing",
           out |-> EmptyLogs, level |-> "", view |-> EmptyLogs]

Init ==
    /\ jobs = <<>>
    /\ RUNNING_JOBS = {}
    /\ cancel_event = [j \in JobIds |-> FALSE]
    /\ pc = [j \in JobIds |-> "none"]
    /\ watcher = [j \in JobIds |-> None]
    /\ log_has_error = [j \in JobIds |-> FALSE]
    /\ invoked = [j \in JobIds |-> NoSteps]
    /\ req = NoReq
    /\ resp = NoResp
    /\ clock = 0
    /\ upd = NoUpd
    /\ sig_pc = [j \in JobIds |-> ""]
    /\ last_write = [j \in JobIds |-> NoWrite]
    /\ step_out = [j \in JobIds |-> NoOut]
    /\ swept = {}
    /\ wop = <<>>
    /\ classifier = NoLogs
    /\ scan_read = [j \in JobIds |-> TRUE]

\* no answer is on its way to a client
Quiet == resp.op = "none"

\* datetime.now() advances
Tick ==
    /\ clock < MaxClock
    /\ clock' = clock + 1
    /\ UNCHANGED <<jobs, RUNNING_JOBS, cancel_event, pc, watcher,
                   log_has_error, invoked, req, resp, upd, hist>>

\* ------------------------------------------------------------------ submit
\* fault seeded for C23: the task is queued before the row is inserted
SubmitNoRecord(j) ==
    /\ pc[j] = "none"
    /\ Quiet
    /\ jobs' = jobs
    /\ cancel_event' = [cancel_event EXCEPT ![j] = FALSE]
    /\ RUNNING_JOBS' = RUNNING_JOBS \cup {j}
    /\ pc' = [pc EXCEPT ![j] = "scheduled"]
    /\ resp' = [NoResp EXCEPT !.op = "submit", !.code = 200, !.job = j,
                              !.status = "queued"]
    /\ UNCHANGED <<watcher, log_has_error, invoked, req, clock, upd, hist>>

\* process_data_async: INSERT the row, create and register the Event, queue
\* run_survey_mapper as a background task, answer {"status": "queued"}
Submit(j) ==
    /\ pc[j] = "none"
    /\ Quiet
    /\ jobs' = InsertJob(jobs, j, clock)
    /\ cancel_event' = [cancel_event EXCEPT ![j] = FALSE]
    /\ RUNNING_JOBS' = RUNNING_JOBS \cup {j}
    /\ pc' = [pc EXCEPT ![j] = "scheduled"]
    /\ resp' = [NoResp EXCEPT !.op = "submit", !.code = 200, !.job = j,
                              !.status = "queued"]
    /\ UNCHANGED <<watcher, log_has_error, invoked, req, clock, upd, hist>>

\* ------------------------------------------------------------------ cancel
\* fault seeded for C9: "Job not found" for every job that is not running
JobNotRunningUnknown(tbl, j) ==
    [NoResp EXCEPT !.op = "cancel", !.code = 404, !.job = j]

\* cancel_job lines 516-522: no Event is registered; 404 when the SELECT
\* finds no row, else the row's status (the SELECT is taken to succeed)
JobNotRunning(tbl, j) ==
    IF j \notin DOMAIN tbl
    THEN [NoResp EXCEPT !.op = "cancel", !.code = 404, !.job = j]
    ELSE [NoResp EXCEPT !.op = "cancel", !.code = 200, !.job = j,
                        !.status = tbl[j].status]

\* cancel_job up to its first return: the registry lookup under JOBS_LOCK
\* and, when no Event is registered, the answer from the row
CancelLookup(j) ==
    /\ req.op = "none"
    /\ Quiet
    /\ IF j \notin RUNNING_JOBS
       THEN /\ req' = req
            /\ resp' = JobNotRunning(jobs, j)
       ELSE /\ req' = [NoReq EXCEPT !.op = "cancel", !.job = j, !.phase = "update"]
            /\ resp' = resp
    /\ UNCHANGED <<jobs, RUNNING_JOBS, cancel_event, pc, watcher,
                   log_has_error, invoked, clock, upd, hist>>

\* cancel_job: the guarded UPDATE (a store error leaves cancel_job with a 500
\* before the Event is set)
CancelUpdate ==
    /\ req.op = "cancel" /\ req.phase = "update"
    /\ Quiet
    /\ \/ /\ jobs' = SqlCancelUpdate(jobs, req.job, clock)
          /\ req' = [req EXCEPT !.phase = "set"]
          /\ resp' = resp
       \/ /\ jobs' = jobs
          /\ req' = NoReq
          /\ resp' = [NoResp EXCEPT !.op = "cancel", !.code = 500, !.job = req.job]
    /\ UNCHANGED <<RUNNING_JOBS, cancel_event, pc, watcher, log_has_error,
                   invoked, clock, upd, hist>>

\* cancel_job: evnt.set() and the answer "cancelling"
CancelSet ==
    /\ req.op = "cancel" /\ req.phase = "set"
    /\ Quiet
    /\ cancel_event' = [cancel_event EXCEPT ![req.job] = TRUE]
    /\ sig_pc' = [sig_pc EXCEPT ![req.job] = IF cancel_event[req.job] THEN @
                                              ELSE pc[req.job]]
    /\ req' = NoReq
    /\ resp' = [NoResp EXCEPT !.op = "cancel", !.code = 200, !.job = req.job,
                              !.status = "cancelling"]
    /\ UNCHANGED <<jobs, RUNNING_JOBS, pc, watcher, log_has_error, invoked,
                   clock, upd, last_write, step_out, swept, wop, classifier, scan_read>>

\* cancel_all_jobs under JOBS_LOCK: every registered Event is set
CancelAllSignal ==
    /\ req.op = "none"
    /\ Quiet
    /\ cancel_event' = [j \in JobIds |->
                          IF j \in RUNNING_JOBS THEN TRUE ELSE cancel_event[j]]
    /\ sig_pc' = [j \in JobIds |->
                    IF j \in RUNNING_JOBS /\ ~cancel_event[j] THEN pc[j]
                    ELSE sig_pc[j]]
    /\ IF RUNNING_JOBS = {}
       THEN /\ req' = req
            /\ resp' = [NoResp EXCEPT !.op = "cancel_all", !.code = 200]
       ELSE /\ req' = [NoReq EXCEPT !.op = "cancel_all", !.phase = "update",
                                    !.cancelled = RUNNING_JOBS]
            /\ resp' = resp
    /\ UNCHANGED <<jobs, RUNNING_JOBS, pc, watcher, log_has_error, invoked,
                   clock, upd, last_write, step_out, swept, wop, classifier, scan_read>>

\* the guarded UPDATE of cancel_all_jobs for every id in `cancelled`
RECURSIVE CancelAllRows(_, _, _)
CancelAllRows(tbl, ids, now_) ==
    IF ids = {} THEN tbl
    ELSE LET jid == CHOOSE x \in ids : TRUE
         IN  CancelAllRows(SqlCancelUpdate(tbl, jid, now_), ids \ {jid}, now_)

\* cancel_all_jobs: the UPDATEs in one transaction, then the answer
CancelAllUpdate ==
    /\ req.op = "cancel_all" /\ req.phase = "update"
    /\ Quiet
    /\ \/ /\ jobs' = CancelAllRows(jobs, req.cancelled, clock)
          /\ resp' = [NoResp EXCEPT !.op = "cancel_all", !.code = 200,
                                    !.count = Cardinality(req.cancelled),
                                    !.job_ids = req.cancelled]
          /\ swept' = swept \cup req.cancelled
       \/ /\ jobs' = jobs
          /\ resp' = [NoResp EXCEPT !.op = "cancel_all", !.code = 500]
          /\ swept' = swept
    /\ req' = NoReq
    /\ UNCHANGED <<RUNNING_JOBS, cancel_event, pc, watcher, log_has_error,
                   invoked, clock, upd, sig_pc, last_write, step_out, wop, classifier, scan_read>>

\* ------------------------------------------------------- run_survey_mapper
\* The run of job j is cut where it touches what other threads touch (the
\* jobs table, its Event, the registry); what lies between two cuts is one
\* action. The watcher and the log file belong to the run alone.

\* a status write of the run, followed by a record through job_logger; exc
\* is the text of the exception whose handler issues the write (None when
\* the write is not in an except clause)
WriteLogExc(j, status, error, fails, level, msg, w, f, next, exc) ==
    /\ jobs' = update_status_safe(jobs, j, status, error, clock, fails)
    /\ watcher' = [watcher EXCEPT ![j] = emit(w, level, msg)]
    /\ log_has_error' = [log_has_error EXCEPT ![j] = FileAfter(f, level, msg)]
    /\ pc' = [pc EXCEPT ![j] = next]
    /\ last_write' = [last_write EXCEPT ![j] =
                        [status |-> status, error |-> error,
                         landed |-> fails < retries, exc |-> exc]]

WriteAndLog(j, status, error, fails, level, msg, w, f, next) ==
    WriteLogExc(j, status, error, fails, level, msg, w, f, next, None)

\* fault seeded for C16: the top-level handler records a fixed text
ExceptOpaque(j, exc, fails) ==
    WriteLogExc(j, "failed", <<"Internal error">>, fails, LvError,
                <<"Unhandled error in job">>, watcher[j], log_has_error[j],
                "finally", exc)

\* nothing but the position changes
Goto(j, next) ==
    /\ pc' = [pc EXCEPT ![j] = next]
    /\ UNCHANGED <<jobs, watcher, log_has_error, last_write>>

\* fault seeded for C38: the handler records the exception text but leaves
\* the job processing
ExceptKeepsProcessing(j, exc, fails) ==
    WriteLogExc(j, "processing", exc, fails, LvError, <<"Unhandled error in job">>,
                watcher[j], log_has_error[j], "finally", exc)

\* except Exception as exc: update_status_safe(failed, str(exc));
\* job_logger.exception("Unhandled error in job")
Except(j, exc, fails) ==
    WriteLogExc(j, "failed", exc, fails, LvError, <<"Unhandled error in job">>,
                watcher[j], log_has_error[j], "finally", exc)

\* _abort_if_error(prefix) when it aborts: w is the watcher after the rescan
AbortIfError(j, prefix, w, fails) ==
    WriteAndLog(j, "failed", AbortMsg(prefix, w), fails, LvError,
                AbortMsg(prefix, w), w, log_has_error[j], "finally")

\* fault seeded for C3: the cancel check never looks at the Event
CancelCheckBlind(j, message, fails, next) ==
    Goto(j, next)

\* if cancel_event.is_set(): update_status_safe(canceled, message);
\* job_logger.warning(...); return
CancelCheck(j, message, fails, next) ==
    IF cancel_event[j]
    THEN WriteAndLog(j, "canceled", <<message>>, fails, LvWarning,
                     <<"Cancellation">>, watcher[j], log_has_error[j], "finally")
    ELSE Goto(j, next)

\* lines 652-674: logger and watcher setup (outside the try), then the
\* processing write
RunStart(j, env) ==
    /\ pc[j] = "scheduled"
    /\ Quiet
    /\ \E setup_ok \in env.setup_ok, fails \in env.store :
         IF ~setup_ok
         THEN Goto(j, "crashed")
         ELSE WriteAndLog(j, "processing", None, fails, LvInfo, <<"Job started">>,
                          None, FALSE, "early")
    /\ UNCHANGED <<RUNNING_JOBS, cancel_event, invoked, req, resp, clock, upd,
                   sig_pc, step_out, swept, wop, classifier, scan_read>>

\* lines 676-682: the pre-start fail-fast check and the early cancel check
EarlyCheck(j, env) ==
    /\ pc[j] = "early"
    /\ Quiet
    /\ \E fails \in env.store, readable \in env.readable :
         /\ scan_read' = [scan_read EXCEPT ![j] = readable]
         /\ LET w == scan_file_once(watcher[j], log_has_error[j], readable)
            IN  IF Truthy(w)
                THEN AbortIfError(j, "pre-start: ", w, fails)
                ELSE CancelCheck(j, "Canceled before start", fails, "db")
    /\ UNCHANGED <<RUNNING_JOBS, cancel_event, invoked, req, resp, clock, upd,
                   sig_pc, step_out, swept, wop, classifier>>

\* lines 685-701: the optional fetch of LUTAssetTypes; on an exception the
\* run writes processing again with a warning as the error text
DbFetch(j, env) ==
    /\ pc[j] = "db"
    /\ Quiet
    /\ \/ Goto(j, "check2")
       \/ \E fails \in env.store, exc \in env.exc :
            LET msg == <<"Warning: could not load LUTAssetTypes from DB - ">> \o exc
            IN  WriteLogExc(j, "processing", msg, fails, LvWarning, msg,
                            watcher[j], log_has_error[j], "check2", exc)
    /\ UNCHANGED <<RUNNING_JOBS, cancel_event, invoked, req, resp, clock, upd,
                   sig_pc, step_out, swept, wop, classifier, scan_read>>

\* lines 704-707
Check2(j, env) ==
    /\ pc[j] = "check2"
    /\ Quiet
    /\ \E fails \in env.store :
         CancelCheck(j, "Canceled before processing", fails, "config")
    /\ UNCHANGED <<RUNNING_JOBS, cancel_event, invoked, req, resp, clock, upd,
                   sig_pc, step_out, swept, wop, classifier, scan_read>>

\* lines 709-733: config resolution and the SurveyMapper; an exception goes
\* to the top-level handler
Config(j, env) ==
    /\ pc[j] = "config"
    /\ Quiet
    /\ \/ Goto(j, "check3")
       \/ \E fails \in env.store, exc \in env.exc : Except(j, exc, fails)
    /\ UNCHANGED <<RUNNING_JOBS, cancel_event, invoked, req, resp, clock, upd,
                   sig_pc, step_out, swept, wop, classifier, scan_read>>

\* lines 736-742: the cancel check before step 1, then the call of
\* processor._process_grid_sheet()
Check3(j, env) ==
    /\ pc[j] = "check3"
    /\ Quiet
    /\ \E fails \in env.store :
         CancelCheck(j, "Canceled before grid processing", fails, "step1")
    /\ invoked' = IF pc'[j] = "step1" THEN [invoked EXCEPT ![j].step1 = @ + 1]
                  ELSE invoked
    /\ UNCHANGED <<RUNNING_JOBS, cancel_event, req, resp, clock, upd,
                   sig_pc, step_out, swept, wop, classifier, scan_read>>

\* lines 742-755: step 1 returns (or raises); a result that is no dict or
\* has no true "success" is written as failed "Grid processing failed"
Step1Return(j, env) ==
    /\ pc[j] = "step1"
    /\ Quiet
    /\ \E fails \in env.store, elog \in env.elog :
         LET w == WatcherAfterStep(watcher[j], elog)
             f == FileAfterStep(log_has_error[j], elog)
         IN  \/ \E exc \in env.exc :
                  /\ step_out' = [step_out EXCEPT ![j] = Raised(1, w)]
                  /\ WriteLogExc(j, "failed", exc, fails, LvError,
                                 <<"Unhandled error in job">>, w, f, "finally", exc)
             \/ \E step1 \in StepResults :
                  /\ step_out' = [step_out EXCEPT ![j] = Handed(1, step1, w)]
                  /\ IF ~step1.isdict \/ ~GetSuccess(step1)
                     THEN WriteAndLog(j, "failed", <<"Grid processing failed">>, fails,
                                      LvError, <<"Step 1 failed">>, w, f, "s1abort")
                     ELSE /\ watcher' = [watcher EXCEPT ![j] = w]
                          /\ log_has_error' = [log_has_error EXCEPT ![j] = f]
                          /\ pc' = [pc EXCEPT ![j] = "check4"]
                          /\ UNCHANGED <<jobs, last_write>>
    /\ UNCHANGED <<RUNNING_JOBS, cancel_event, invoked, req, resp, clock, upd,
                   sig_pc, swept, wop, classifier, scan_read>>

\* line 751: _abort_if_error("after step1: ") on the failure path of step 1
Step1Abort(j, env) ==
    /\ pc[j] = "s1abort"
    /\ Quiet
    /\ \E fails \in env.store, readable \in env.readable :
         /\ scan_read' = [scan_read EXCEPT ![j] = readable]
         /\ LET w == scan_file_once(watcher[j], log_has_error[j], readable)
            IN  IF Truthy(w)
                THEN AbortIfError(j, "after step1: ", w, fails)
                ELSE Goto(j, "finally")
    /\ UNCHANGED <<RUNNING_JOBS, cancel_event, invoked, req, resp, clock, upd,
                   sig_pc, step_out, swept, wop, classifier>>

\* fault seeded for C18: step 2 is called without the cancel check
Check4Unchecked(j, env) ==
    /\ pc[j] = "check4"
    /\ Quiet
    /\ Goto(j, "step2")
    /\ invoked' = [invoked EXCEPT ![j].step2 = @ + 1]
    /\ UNCHANGED <<RUNNING_JOBS, cancel_event, req, resp, clock, upd,
                   sig_pc, step_out, swept, wop, classifier, scan_read>>

\* lines 760-766: the cancel check before step 2, then the call of
\* processor.export_feature_collections(...)
Check4(j, env) ==
    /\ pc[j] = "check4"
    /\ Quiet
    /\ \E fails \in env.store :
         CancelCheck(j, "Canceled before export", fails, "step2")
    /\ invoked' = IF pc'[j] = "step2" THEN [invoked EXCEPT ![j].step2 = @ + 1]
                  ELSE invoked
    /\ UNCHANGED <<RUNNING_JOBS, cancel_event, req, resp, clock, upd,
                   sig_pc, step_out, swept, wop, classifier, scan_read>>

\* lines 766-783: step 2 returns (or raises)
Step2Return(j, env) ==
    /\ pc[j] = "step2"
    /\ Quiet
    /\ \E fails \in env.store, elog \in env.elog :
         LET w == WatcherAfterStep(watcher[j], elog)
             f == FileAfterStep(log_has_error[j], elog)
         IN  \/ \E exc \in env.exc :
                  /\ step_out' = [step_out EXCEPT ![j] = Raised(2, w)]
                  /\ WriteLogExc(j, "failed", exc, fails, LvError,
                                 <<"Unhandled error in job">>, w, f, "finally", exc)
             \/ \E step2 \in StepResults :
                  /\ step_out' = [step_out EXCEPT ![j] = Handed(2, step2, w)]
                  /\ IF ~step2.isdict
                     THEN WriteAndLog(j, "failed",
                            <<"Internal error - export_feature_collections did not return a dict">>,
                            fails, LvError, <<"Step 2 failed: invalid return type">>,
                            w, f, "finally")
                     ELSE IF ~GetSuccess(step2)
                     THEN LET msg == Join(GetErrors(step2))
                          IN  WriteAndLog(j, "failed", msg, fails, LvError,
                                          <<"Step 2 failed: ">> \o msg, w, f, "finally")
                     ELSE /\ watcher' = [watcher EXCEPT ![j] = w]
                          /\ log_has_error' = [log_has_error EXCEPT ![j] = f]
                          /\ pc' = [pc EXCEPT ![j] = "check5"]
                          /\ UNCHANGED <<jobs, last_write>>
    /\ UNCHANGED <<RUNNING_JOBS, cancel_event, invoked, req, resp, clock, upd,
                   sig_pc, swept, wop, classifier, scan_read>>

\* lines 786-789
Check5(j, env) ==
    /\ pc[j] = "check5"
    /\ Quiet
    /\ \E fails \in env.store :
         CancelCheck(j, "Canceled before zip", fails, "prezip")
    /\ UNCHANGED <<RUNNING_JOBS, cancel_event, invoked, req, resp, clock, upd,
                   sig_pc, step_out, swept, wop, classifier, scan_read>>

\* lines 795-808: the fail-fast check before the zip, then zip_directory
Zip(j, env) ==
    /\ pc[j] = "prezip"
    /\ Quiet
    /\ \E fails \in env.store, readable \in env.readable :
         /\ scan_read' = [scan_read EXCEPT ![j] = readable]
         /\ LET w == scan_file_once(watcher[j], log_has_error[j], readable)
            IN  IF Truthy(w)
                THEN /\ AbortIfError(j, "before zip: ", w, fails)
                     /\ invoked' = invoked
                ELSE /\ invoked' = [invoked EXCEPT ![j].zip = @ + 1]
                     /\ \/ Goto(j, "complete")
                        \/ \E xc \in env.exc :
                             WriteLogExc(j, "failed", <<"Zipping failed: ">> \o xc,
                                         fails, LvError, <<"Zipping failed: ">> \o xc,
                                         watcher[j], log_has_error[j], "finally", xc)
    /\ UNCHANGED <<RUNNING_JOBS, cancel_event, req, resp, clock, upd,
                   sig_pc, step_out, swept, wop, classifier>>

\* line 811
WriteComplete(j, env) ==
    /\ pc[j] = "complete"
    /\ Quiet
    /\ \E fails \in env.store :
         WriteAndLog(j, "complete", None, fails, LvInfo, <<"Zipping completed">>,
                     watcher[j], log_has_error[j], "savezip")
    /\ UNCHANGED <<RUNNING_JOBS, cancel_event, invoked, req, resp, clock, upd,
                   sig_pc, step_out, swept, wop, classifier, scan_read>>

\* fault seeded for C19: the location is recorded whatever the status is
save_final_zip_location_any(tbl, running, job_id, zip_exists, store_ok, now_) ==
    IF ~store_ok
    THEN [raised |-> <<"database is locked">>, tbl |-> tbl]
    ELSE IF job_id \notin DOMAIN tbl
    THEN [raised |-> <<"404: Job not found">>, tbl |-> tbl]
    ELSE IF ~zip_exists
    THEN [raised |-> <<"No active exception to reraise">>, tbl |-> tbl]
    ELSE [raised |-> None, tbl |-> SqlUpdateZip(tbl, job_id, <<"results.zip">>, now_)]

\* save_final_zip_location(job_id, zip_location): what it raises (None when
\* it returns) and the table it leaves. `running` is the registry lookup,
\* `zip_exists` is FSPath(zip_location).exists(), `store_ok` is whether its
\* sqlite statements (which do not retry) succeed.
save_final_zip_location(tbl, running, job_id, zip_exists, store_ok, now_) ==
    IF ~store_ok
    THEN [raised |-> <<"database is locked">>, tbl |-> tbl]
    ELSE IF job_id \notin DOMAIN tbl
    THEN [raised |-> <<"404: Job not found">>, tbl |-> tbl]
    ELSE IF running /\ tbl[job_id].status \in {"queued", "processing", "cancelling"}
    THEN [raised |-> <<"409: Job is not finished yet">>, tbl |-> tbl]
    ELSE IF ~zip_exists
    THEN [raised |-> <<"No active exception to reraise">>, tbl |-> tbl]
    ELSE [raised |-> None, tbl |-> SqlUpdateZip(tbl, job_id, <<"results.zip">>, now_)]

\* lines 812-817: save_final_zip_location; what it raises is caught by the
\* top-level handler, which writes failed
SaveZip(j, env) ==
    /\ pc[j] = "savezip"
    /\ Quiet
    /\ \E fails \in env.store, store_ok \in env.store_ok :
         LET r == save_final_zip_location(jobs, j \in RUNNING_JOBS, j, TRUE,
                                          store_ok, clock)
         IN  IF r.raised # None
             THEN Except(j, r.raised, fails)
             ELSE /\ jobs' = r.tbl
                  /\ pc' = [pc EXCEPT ![j] = "finally"]
                  /\ UNCHANGED <<watcher, log_has_error, last_write>>
    /\ UNCHANGED <<RUNNING_JOBS, cancel_event, invoked, req, resp, clock, upd,
                   sig_pc, step_out, swept, wop, classifier, scan_read>>

\* fault seeded for C24: the finalizer empties the registry
FinallyClearsAll(j) ==
    /\ pc[j] = "finally"
    /\ Quiet
    /\ RUNNING_JOBS' = {}
    /\ pc' = [pc EXCEPT ![j] = "done"]
    /\ watcher' = [watcher EXCEPT ![j] = None]
    /\ log_has_error' = [log_has_error EXCEPT ![j] = FALSE]
    /\ UNCHANGED <<jobs, cancel_event, invoked, req, resp, clock, upd, hist>>

\* lines 818-821: finally: RUNNING_JOBS.pop(job_id, None)
Finally(j) ==
    /\ pc[j] = "finally"
    /\ Quiet
    /\ RUNNING_JOBS' = RUNNING_JOBS \ {j}
    /\ pc' = [pc EXCEPT ![j] = "done"]
    /\ watcher' = [watcher EXCEPT ![j] = None]
    /\ log_has_error' = [log_has_error EXCEPT ![j] = FALSE]
    /\ UNCHANGED <<jobs, cancel_event, invoked, req, resp, clock, upd, hist>>

\* the run of job j is over: it returned, or an exception left it
Ended(j) == pc[j] \in {"done", "crashed"}

\* the handler's answer reaches the client; the model holds an answer only
\* in the state its handler returned in
Respond ==
    /\ resp.op # "none"
    /\ resp' = NoResp
    /\ UNCHANGED <<jobs, RUNNING_JOBS, cancel_event, pc, watcher,
                   log_has_error, invoked, req, clock, upd, hist>>

\* one job, every behaviour of its surroundings, a second id never submitted
Next ==
    \/ Tick
    \/ Respond
    \/ \E j \in SoloIds : Submit(j)
    \/ \E j \in JobIds : CancelLookup(j)
    \/ CancelUpdate
    \/ CancelSet
    \/ CancelAllSignal
    \/ CancelAllUpdate
    \/ \E j \in SoloIds : RunStart(j, FullEnv)
    \/ \E j \in SoloIds : EarlyCheck(j, FullEnv)
    \/ \E j \in SoloIds : DbFetch(j, FullEnv)
    \/ \E j \in SoloIds : Check2(j, FullEnv)
    \/ \E j \in SoloIds : Config(j, FullEnv)
    \/ \E j \in SoloIds : Check3(j, FullEnv)
    \/ \E j \in SoloIds : Step1Return(j, FullEnv)
    \/ \E j \in SoloIds : Step1Abort(j, FullEnv)
    \/ \E j \in SoloIds : Check4(j, FullEnv)
    \/ \E j \in SoloIds : Step2Return(j, FullEnv)
    \/ \E j \in SoloIds : Check5(j, FullEnv)
    \/ \E j \in SoloIds : Zip(j, FullEnv)
    \/ \E j \in SoloIds : WriteComplete(j, FullEnv)
    \/ \E j \in SoloIds : SaveZip(j, FullEnv)
    \/ \E j \in SoloIds : Finally(j)

Spec == Init /\ [][Next]_vars

\* ------------------------------------------------------------ status query
\* get_job_status(job_id, level): the answer. `store_ok` is whether the
\* SELECT succeeds (it is in no try block), `logs_ok` whether
\* collect_logs_grouped_all and filter_logs_by_level return; when they raise
\* the summary is three empty buckets and the note "Log collection error".
\* output_dir is "output/<job_id>" for every row, so the summary is present.
get_job_status(tbl, job_id, store_ok, logs_ok) ==
    IF ~store_ok
    THEN [NoResp EXCEPT !.op = "status", !.code = 500, !.job = job_id]
    ELSE IF job_id \notin DOMAIN tbl
    THEN [NoResp EXCEPT !.op = "status", !.code = 404, !.job = job_id]
    ELSE [NoResp EXCEPT !.op = "status", !.code = 200, !.job = job_id,
                        !.status = tbl[job_id].status,
                        !.error = PyOr(tbl[job_id].error, None),
                        !.logs = IF logs_ok THEN "collected"
                                 ELSE "Log collection error"]

\* GET /status/{job_id}
Status(j, env) ==
    /\ Quiet
    /\ \E store_ok \in env.store_ok, logs_ok \in BOOLEAN :
         resp' = get_job_status(jobs, j, store_ok, logs_ok)
    /\ UNCHANGED <<jobs, RUNNING_JOBS, cancel_event, pc, watcher,
                   log_has_error, invoked, req, clock, upd, hist>>

\* ids a client may ask a download for that the path test refuses
BadIds == {"../j1"}

\* "/" in job_id or "\\" in job_id or ".." in job_id
InvalidId(job_id) == job_id \in BadIds

\* bool(zip_path) of OUTPUT_BASE_DIR / job_id / RESULTS_ZIP_FILENAME: a
\* pathlib path is true whether or not the file is there
PathTruthy(exists) == TRUE

\* download_zip(job_id): the answer. `exists` is whether the archive is on
\* disk; a FileResponse whose file is missing fails when the framework
\* sends it (RuntimeError "File at path ... does not exist"), a 500
download_zip(job_id, exists) ==
    IF InvalidId(job_id)
    THEN [NoResp EXCEPT !.op = "download", !.code = 400, !.job = job_id]
    ELSE IF ~PathTruthy(exists)
    THEN [NoResp EXCEPT !.op = "download", !.code = 404, !.job = job_id]
    ELSE [NoResp EXCEPT !.op = "download", !.job = job_id,
                        !.code = IF exists THEN 200 ELSE 500]

\* GET /download/{job_id}; an archive can be on disk only after the run of
\* that job has called zip_directory
Download(j) ==
    /\ Quiet
    /\ \E exists \in (IF j \in JobIds /\ invoked[j].zip > 0
                       THEN BOOLEAN ELSE {FALSE}) :
         resp' = download_zip(j, exists)
    /\ UNCHANGED <<jobs, RUNNING_JOBS, cancel_event, pc, watcher,
                   log_has_error, invoked, req, clock, upd, hist>>

\* f"/{output_dir}/{RESULTS_ZIP_FILENAME}" with output_dir "output/<job_id>"
DownloadPath(job_id) == <<"/output/", job_id, "/results.zip">>

\* the orders in which `ORDER BY created_at DESC` may hand over the rows:
\* every arrangement of the rows in which created_at never grows
RowOrders(tbl) ==
    { o \in [1..Cardinality(DOMAIN tbl) -> DOMAIN tbl] :
        /\ \A a, b \in DOMAIN o : a # b => o[a] # o[b]
        /\ \A a, b \in DOMAIN o :
             a < b => tbl[o[a]].created_at >= tbl[o[b]].created_at }

\* the loop of get_all_jobs from row i on; `path` is
\* results_download_filepath as the rows before left it: it is assigned
\* only after the logs of a row were collected and filtered
RECURSIVE ListRows(_, _, _, _, _)
ListRows(tbl, order, logs_ok, path, i) ==
    IF i > Len(order) THEN <<>>
    ELSE LET job_id == order[i]
             p == IF logs_ok[job_id] THEN DownloadPath(job_id) ELSE path
         IN  <<[job_id |-> job_id,
                status |-> tbl[job_id].status,
                error |-> PyOr(tbl[job_id].error, None),
                download_url |-> IF tbl[job_id].status = "complete"
                                 THEN p ELSE None,
                logs |-> IF logs_ok[job_id] THEN "collected"
                         ELSE "Log collection error"]>>
             \o ListRows(tbl, order, logs_ok, p, i + 1)

\* get_all_jobs(): the answer. The SELECT is in no try block;
\* results_download_filepath starts as None before the loop
get_all_jobs(tbl, order, store_ok, logs_ok) ==
    IF ~store_ok
    THEN [NoResp EXCEPT !.op = "list", !.code = 500]
    ELSE [NoResp EXCEPT !.op = "list", !.code = 200,
                        !.items = ListRows(tbl, order, logs_ok, None, 1)]

\* GET /status-all
StatusAll(env) ==
    /\ Quiet
    /\ \E store_ok \in env.store_ok, order \in RowOrders(jobs),
          logs_ok \in [DOMAIN jobs -> BOOLEAN] :
         resp' = get_all_jobs(jobs, order, store_ok, logs_ok)
    /\ UNCHANGED <<jobs, RUNNING_JOBS, cancel_event, pc, watcher,
                   log_has_error, invoked, req, clock, upd, hist>>

\* surroundings of two jobs running side by side: the store may refuse a
\* write or a statement, a step may raise, the setup may fail
PairEnv ==
    [store |-> {0, retries}, store_ok |-> BOOLEAN,
     exc |-> {<<"database is locked">>}, setup_ok |-> BOOLEAN,
     elog |-> {"none"}, readable |-> {TRUE}]

\* two jobs, each submitted once and run by its own background task, and
\* status queries at any moment
NextPair ==
    \/ Respond
    \/ \E j \in JobIds : Submit(j)
    \/ \E j \in JobIds : Status(j, PairEnv)
    \/ \E j \in JobIds \cup BadIds : Download(j)
    \/ StatusAll(PairEnv)
    \/ \E j \in JobIds : RunStart(j, PairEnv)
    \/ \E j \in JobIds : EarlyCheck(j, PairEnv)
    \/ \E j \in JobIds : DbFetch(j, PairEnv)
    \/ \E j \in JobIds : Check2(j, PairEnv)
    \/ \E j \in JobIds : Config(j, PairEnv)
    \/ \E j \in JobIds : Check3(j, PairEnv)
    \/ \E j \in JobIds : Step1Return(j, PairEnv)
    \/ \E j \in JobIds : Step1Abort(j, PairEnv)
    \/ \E j \in JobIds : Check4(j, PairEnv)
    \/ \E j \in JobIds : Step2Return(j, PairEnv)
    \/ \E j \in JobIds : Check5(j, PairEnv)
    \/ \E j \in JobIds : Zip(j, PairEnv)
    \/ \E j \in JobIds : WriteComplete(j, PairEnv)
    \/ \E j \in JobIds : SaveZip(j, PairEnv)
    \/ \E j \in JobIds : Finally(j)

SpecPair == Init /\ [][NextPair]_vars

\* ------------------------------------------- update_status_safe, stepwise
\* The call attempt by attempt, next to the clock and to the guarded UPDATE
\* of a cancel handler running in another thread.  upd.attempt is the
\* function's local `attempt`; upd.tries counts the UPDATEs it has tried.

\* the statuses and error texts the callers of update_status_safe pass
WriteStatuses == {"processing", "canceled", "failed", "complete"}

WriteErrors == {None, <<"Grid processing failed">>}

\* after Submit("j1") has answered
InitStore ==
    /\ jobs = InsertJob(<<>>, "j1", 0)
    /\ RUNNING_JOBS = {"j1"}
    /\ cancel_event = [j \in JobIds |-> FALSE]
    /\ pc = [j \in JobIds |-> IF j = "j1" THEN "scheduled" ELSE "none"]
    /\ watcher = [j \in JobIds |-> None]
    /\ log_has_error = [j \in JobIds |-> FALSE]
    /\ invoked = [j \in JobIds |-> NoSteps]
    /\ req = NoReq
    /\ resp = NoResp
    /\ clock = 0
    /\ upd = NoUpd
    /\ sig_pc = [j \in JobIds |-> ""]
    /\ last_write = [j \in JobIds |-> NoWrite]
    /\ step_out = [j \in JobIds |-> NoOut]
    /\ swept = {}
    /\ wop = <<>>
    /\ classifier = NoLogs
    /\ scan_read = [j \in JobIds |-> TRUE]

StoreFrame ==
    UNCHANGED <<RUNNING_JOBS, cancel_event, pc, watcher, log_has_error,
                invoked, req, resp, hist>>

\* lines 150-151: now_ = datetime.now().isoformat(); attempt = 0
UpdCall(job_id, status, error) ==
    /\ upd.pc \in {"idle", "returned"}
    /\ upd' = [pc |-> "attempt", job_id |-> job_id, status |-> status,
               error |-> error, now_ |-> clock, attempt |-> 0, tries |-> 0,
               landed |-> FALSE]
    /\ UNCHANGED <<jobs, clock>>
    /\ StoreFrame

\* lines 153-163: the UPDATE commits; return
UpdAttemptOk ==
    /\ upd.pc = "attempt"
    /\ jobs' = SqlUpdateStatus(jobs, upd.job_id, upd.status, upd.now_, upd.error)
    /\ upd' = [upd EXCEPT !.pc = "returned", !.tries = @ + 1, !.landed = TRUE]
    /\ UNCHANGED clock
    /\ StoreFrame

\* fault seeded for C7: the last failure is raised to the caller
OnAttemptFailedRaise(u) ==
    [u EXCEPT !.attempt = @ + 1,
              !.tries = @ + 1,
              !.pc = IF u.attempt + 1 >= retries THEN "raised" ELSE "attempt"]

\* fault seeded for C8: "attempt > retries" in place of "attempt >= retries"
OnAttemptFailedLate(u) ==
    [u EXCEPT !.attempt = @ + 1,
              !.tries = @ + 1,
              !.pc = IF u.attempt + 1 > retries THEN "returned" ELSE "attempt"]

\* lines 164-174, the except clause: attempt += 1; return when
\* attempt >= retries, else sleep and go round the loop again
OnAttemptFailed(u) ==
    [u EXCEPT !.attempt = @ + 1,
              !.tries = @ + 1,
              !.pc = IF u.attempt + 1 >= retries THEN "returned" ELSE "attempt"]

\* lines 153-174: connect or the UPDATE raises
UpdAttemptFail ==
    /\ upd.pc = "attempt"
    /\ upd' = OnAttemptFailed(upd)
    /\ UNCHANGED <<jobs, clock>>
    /\ StoreFrame

UpdAttempt == UpdAttemptOk \/ UpdAttemptFail

\* cancel_job lines 524-530 in another thread
StoreCancel(j) ==
    /\ jobs' = SqlCancelUpdate(jobs, j, clock)
    /\ jobs' # jobs
    /\ UNCHANGED <<clock, upd>>
    /\ StoreFrame

NextStore ==
    \/ Tick
    \/ \E j \in JobIds, st \in WriteStatuses, e \in WriteErrors : UpdCall(j, st, e)
    \/ UpdAttemptOk
    \/ UpdAttemptFail
    \/ \E j \in JobIds : StoreCancel(j)

SpecStore == InitStore /\ [][NextStore]_vars

\* the thread inside update_status_safe keeps running: every attempt ends
\* (sqlite3.connect(timeout=30)) and every sleep is finite
SpecStoreFair == SpecStore /\ WF_vars(UpdAttempt)

\* --------------------------------- update_status_safe, one caller per job
\* Every job has its own thread inside update_status_safe; here upd maps a
\* job id to the locals of that thread's call.

InitWriters ==
    /\ jobs = InsertJob(InsertJob(<<>>, "j1", 0), "j2", 0)
    /\ RUNNING_JOBS = JobIds
    /\ cancel_event = [j \in JobIds |-> FALSE]
    /\ pc = [j \in JobIds |-> "scheduled"]
    /\ watcher = [j \in JobIds |-> None]
    /\ log_has_error = [j \in JobIds |-> FALSE]
    /\ invoked = [j \in JobIds |-> NoSteps]
    /\ req = NoReq
    /\ resp = NoResp
    /\ clock = 0
    /\ upd = [j \in JobIds |-> NoUpd]
    /\ sig_pc = [j \in JobIds |-> ""]
    /\ last_write = [j \in JobIds |-> NoWrite]
    /\ step_out = [j \in JobIds |-> NoOut]
    /\ swept = {}
    /\ wop = <<>>
    /\ classifier = NoLogs
    /\ scan_read = [j \in JobIds |-> TRUE]

\* lines 150-151 in the thread of job j
WriterCall(j, status) ==
    /\ upd[j].pc \in {"idle", "returned"}
    /\ upd' = [upd EXCEPT ![j] =
                 [pc |-> "attempt", job_id |-> j, status |-> status,
                  error |-> None, now_ |-> clock, attempt |-> 0, tries |-> 0,
                  landed |-> FALSE]]
    /\ UNCHANGED <<jobs, clock>>
    /\ StoreFrame

\* lines 153-163 in the thread of job j
WriterAttemptOk(j) ==
    /\ upd[j].pc = "attempt"
    /\ jobs' = SqlUpdateStatus(jobs, j, upd[j].status, upd[j].now_, upd[j].error)
    /\ upd' = [upd EXCEPT ![j].pc = "returned", ![j].tries = @ + 1,
                          ![j].landed = TRUE]
    /\ UNCHANGED clock
    /\ StoreFrame

\* lines 164-174 in the thread of job j
WriterAttemptFail(j) ==
    /\ upd[j].pc = "attempt"
    /\ upd' = [upd EXCEPT ![j] = OnAttemptFailed(upd[j])]
    /\ UNCHANGED <<jobs, clock>>
    /\ StoreFrame

\* SELECT status FROM jobs WHERE job_id = ?
StoreGet(tbl, j) == tbl[j].status

NextWriters ==
    \/ \E j \in JobIds, st \in WriteStatuses : WriterCall(j, st)
    \/ \E j \in JobIds : WriterAttemptOk(j)
    \/ \E j \in JobIds : WriterAttemptFail(j)

SpecWriters == InitWriters /\ [][NextWriters]_vars

\* --------------------------------------------- the watcher, followed alone
\* One FailFastLogWatcher (that of job "j1") under any sequence of logger
\* events, raw lines written to the log file past the logger, and rescans.
\* wop is the sequence of these calls.

\* how many calls on the watcher are followed
MaxOps == 3

\* messages of the records the job logger hands to the watcher
LogMsgs ==
    { <<>>, <<"Job started">>, <<"engine error">>,
      <<"ERROR 000210: Cannot create output">> }

LogLevels == {LvInfo, LvWarning, LvError, LvCritical}

\* FailFastLogWatcher.__init__: _error_msg = None; the job is registered
InitWatcher ==
    /\ jobs = InsertJob(<<>>, "j1", 0)
    /\ RUNNING_JOBS = {"j1"}
    /\ cancel_event = [j \in JobIds |-> FALSE]
    /\ pc = [j \in JobIds |-> IF j = "j1" THEN "scheduled" ELSE "none"]
    /\ watcher = [j \in JobIds |-> None]
    /\ log_has_error = [j \in JobIds |-> FALSE]
    /\ invoked = [j \in JobIds |-> NoSteps]
    /\ req = NoReq
    /\ resp = NoResp
    /\ clock = 0
    /\ upd = NoUpd
    /\ sig_pc = [j \in JobIds |-> ""]
    /\ last_write = [j \in JobIds |-> NoWrite]
    /\ step_out = [j \in JobIds |-> NoOut]
    /\ swept = {}
    /\ wop = <<>>
    /\ classifier = NoLogs
    /\ scan_read = [j \in JobIds |-> TRUE]

WatcherFrame ==
    UNCHANGED <<jobs, RUNNING_JOBS, cancel_event, pc, invoked, req, resp,
                clock, upd, sig_pc, last_write, step_out, swept, classifier, scan_read>>

WCall(op, level, msg, readable) ==
    [op |-> op, level |-> level, msg |-> msg, readable |-> readable]

\* a record goes through the job logger: the watcher's emit, and the file
\* handler's line in the log file
WEmit(level, msg) ==
    /\ Len(wop) < MaxOps
    /\ watcher' = [watcher EXCEPT !["j1"] = emit(@, level, msg)]
    /\ log_has_error' = [log_has_error EXCEPT !["j1"] = FileAfter(@, level, msg)]
    /\ wop' = Append(wop, WCall("emit", level, msg, TRUE))
    /\ WatcherFrame

\* a line holding "error" is written to the log file past the logger
WRaw ==
    /\ Len(wop) < MaxOps
    /\ log_has_error' = [log_has_error EXCEPT !["j1"] = TRUE]
    /\ wop' = Append(wop, WCall("raw", "", <<>>, TRUE))
    /\ UNCHANGED watcher
    /\ WatcherFrame

\* watcher.scan_file_once(); `readable`: read_text succeeds
WScan(readable) ==
    /\ Len(wop) < MaxOps
    /\ watcher' = [watcher EXCEPT !["j1"] =
                     scan_file_once(@, log_has_error["j1"], readable)]
    /\ wop' = Append(wop, WCall("scan", "", <<>>, readable))
    /\ UNCHANGED log_has_error
    /\ WatcherFrame

NextWatcher ==
    \/ \E level \in LogLevels, msg \in LogMsgs : WEmit(level, msg)
    \/ WRaw
    \/ \E readable \in BOOLEAN : WScan(readable)

SpecWatcher == InitWatcher /\ [][NextWatcher]_vars

\* the last call made on the watcher
LastCall == wop[Len(wop)]

\* ---------------------------------------------------------- log classifier
\* collect_logs_grouped_all and filter_logs_by_level on the logs directory of
\* one job.  A line is a sequence of tokens; a file is a sequence of lines.

MaxFiles == 2

MaxLines == 3

MaxTotal == 4

LevelWords == {"DEBUG", "INFO", "WARNING", "ERROR", "CRITICAL"}

\* the lines written to the files
LineSet ==
    { <<"2025-01-01 00:00:00,000", "|", "INFO", "|", "x", "|", "hello">>,
      <<"2025-01-01 00:00:01,000", "-", "ERROR", "-", "boom">>,
      <<"continued">>,
      <<"Error", " and ", "Warning", " in tool">>,
      <<"WARNING", " 000117">>,
      <<" ">> }

\* path.name of the k-th candidate in the order of its mtime
FileNames == <<"log_1.txt", "log_2.txt", "log_3.txt">>

\* str.lower() on the tokens of LineSet
Lower(tok) ==
    CASE tok \in {"Error", "ERROR"} -> "error"
      [] tok \in {"Warning", "WARNING"} -> "warning"
      [] tok = "INFO" -> "info"
      [] OTHER -> tok

\* `word in line.lower()`
InLower(word, line) == \E i \in 1..Len(line) : Lower(line[i]) = word

\* not line.strip()
Blank(line) == \A i \in 1..Len(line) : line[i] \in {"", " "}

\* ts | LEVEL | logger | msg
RE_PIPE(line) ==
    /\ Len(line) = 7
    /\ line[2] = "|" /\ line[4] = "|" /\ line[6] = "|"
    /\ line[3] \in LevelWords

\* ts - LEVEL - msg
RE_DASH(line) ==
    /\ Len(line) = 5
    /\ line[2] = "-" /\ line[4] = "-"
    /\ line[3] \in LevelWords

\* _parse_structured(line); None is the record with level ""
parse_structured(line) ==
    IF RE_PIPE(line)
    THEN [ts |-> line[1], level |-> line[3], logger |-> line[5], msg |-> <<line[7]>>]
    ELSE IF RE_DASH(line)
    THEN [ts |-> line[1], level |-> line[3], logger |-> "", msg |-> <<line[5]>>]
    ELSE [ts |-> "", level |-> "", logger |-> "", msg |-> <<>>]

LogEntry(ts, level, logger, msg, file) ==
    [ts |-> ts, level |-> level, logger |-> logger, msg |-> msg, file |-> file]

\* output_logslevel_list[bucket].append(entry); last_entry = entry
AppendEntry(acc, bucket, entry) ==
    [out |-> [acc.out EXCEPT ![bucket] = Append(@, entry)],
     last |-> <<bucket, Len(acc.out[bucket]) + 1>>]

\* fault seeded for C27: a bare line always becomes an entry of its own
ContinuationAlone(acc, line, file) ==
    AppendEntry(acc, "info", LogEntry("mtime", "INFO", "raw", line, file))

\* lines 127-140: a bare line is joined to last_entry, the entry the list
\* holds by reference; with no last_entry it becomes an INFO entry
Continuation(acc, line, file) ==
    IF acc.last # <<>>
    THEN [acc EXCEPT !.out[acc.last[1]][acc.last[2]].msg = @ \o <<"\n">> \o line]
    ELSE AppendEntry(acc, "info", LogEntry("mtime", "INFO", "raw", line, file))

\* fault seeded for C28: "warning" is looked for before "error"
RawBucketWarningFirst(line) ==
    IF InLower("warning", line) THEN "warning"
    ELSE IF InLower("error", line) THEN "error"
    ELSE ""

\* lines 106-117: the bucket of a raw line, "" for a bare line
RawBucket(line) ==
    IF InLower("error", line) THEN "error"
    ELSE IF InLower("warning", line) THEN "warning"
    ELSE ""

\* lines 83-140: one pass of the loop over the lines of a file
ClassifyLine(acc, line, file) ==
    LET parsed == parse_structured(line)
    IN  IF parsed.level # ""
        THEN AppendEntry(acc,
                 IF parsed.level \in {"ERROR", "CRITICAL"} THEN "error"
                 ELSE IF parsed.level = "WARNING" THEN "warning"
                 ELSE "info",
                 LogEntry(parsed.ts, parsed.level, parsed.logger, parsed.msg, file))
        ELSE IF Blank(line)
        THEN acc
        ELSE IF RawBucket(line) = "error"
        THEN AppendEntry(acc, "error", LogEntry("mtime", "ERROR", "raw", line, file))
        ELSE IF RawBucket(line) = "warning"
        THEN AppendEntry(acc, "warning", LogEntry("mtime", "WARNING", "raw", line, file))
        ELSE Continuation(acc, line, file)

\* lines 80-140: the lines of one file from the i-th on (the file is taken
\* to be readable)
RECURSIVE ReadLines(_, _, _, _)
ReadLines(acc, lines, file, i) ==
    IF i > Len(lines) THEN acc
    ELSE ReadLines(ClassifyLine(acc, lines[i], file), lines, file, i + 1)

\* lines 75-77: the candidates from the k-th on; last_entry = None for each
RECURSIVE ReadFiles(_, _, _)
ReadFiles(out, files, k) ==
    IF k > Len(files) THEN out
    ELSE ReadFiles(ReadLines([out |-> out, last |-> <<>>], files[k],
                             FileNames[k], 1).out,
                   files, k + 1)

\* collect_logs_grouped_all(output_dir): `dir` is logs_dir.is_dir(), `files`
\* the *.txt and *.log candidates sorted by mtime
collect_logs_grouped_all(dir, files) ==
    IF ~dir THEN EmptyLogs
    ELSE IF files = <<>>
    THEN [EmptyLogs EXCEPT !.note = <<"No log files found">>]
    ELSE ReadFiles(EmptyLogs, files, 1)

\* fault seeded for C30: the view is built without the note
filter_logs_no_note(all_logs, level) ==
    IF level = "all" THEN all_logs
    ELSE [EmptyLogs EXCEPT ![level] = all_logs[level]]

\* filter_logs_by_level(all_logs, level)
filter_logs_by_level(all_logs, level) ==
    IF level = "all" THEN all_logs
    ELSE IF level = "info"
    THEN [info |-> all_logs.info, warning |-> <<>>, error |-> <<>>,
          note |-> all_logs.note]
    ELSE IF level = "warning"
    THEN [info |-> <<>>, warning |-> all_logs.warning, error |-> <<>>,
          note |-> all_logs.note]
    ELSE IF level = "error"
    THEN [info |-> <<>>, warning |-> <<>>, error |-> all_logs.error,
          note |-> all_logs.note]
    ELSE all_logs

\* LogLevelFilter
LevelFilters == {"all", "info", "warning", "error"}

RECURSIVE TotalLines(_, _)
TotalLines(files, k) ==
    IF k > Len(files) THEN 0 ELSE Len(files[k]) + TotalLines(files, k + 1)

LogsFrame ==
    UNCHANGED <<jobs, RUNNING_JOBS, cancel_event, pc, watcher, log_has_error,
                invoked, req, resp, clock, upd, sig_pc, last_write, step_out,
                swept, wop, scan_read>>

\* build_job_logger: logs_dir.mkdir(parents=True, exist_ok=True)
MakeLogsDir ==
    /\ classifier.phase = "writing" /\ ~classifier.dir
    /\ classifier' = [classifier EXCEPT !.dir = TRUE]
    /\ LogsFrame

\* a handler opens a new log file in the directory
NewLogFile ==
    /\ classifier.phase = "writing" /\ classifier.dir
    /\ Len(classifier.files) < MaxFiles
    /\ classifier' = [classifier EXCEPT !.files = Append(@, <<>>)]
    /\ LogsFrame

\* a line is written to the newest log file
WriteLine(line) ==
    /\ classifier.phase = "writing" /\ classifier.files # <<>>
    /\ Len(classifier.files[Len(classifier.files)]) < MaxLines
    /\ TotalLines(classifier.files, 1) < MaxTotal
    /\ classifier' = [classifier EXCEPT !.files[Len(classifier.files)] =
                                           Append(@, line)]
    /\ LogsFrame

\* logs_all = collect_logs_grouped_all(output_dir)
Collect ==
    /\ classifier.phase = "writing"
    /\ classifier' = [classifier EXCEPT
                        !.phase = "collected",
                        !.out = collect_logs_grouped_all(classifier.dir,
                                                         classifier.files)]
    /\ LogsFrame

\* filter_logs_by_level(logs_all, level)
Filter(level) ==
    /\ classifier.phase = "collected"
    /\ classifier' = [classifier EXCEPT
                        !.phase = "filtered",
                        !.level = level,
                        !.view = filter_logs_by_level(classifier.out, level)]
    /\ LogsFrame

NextLogs ==
    \/ MakeLogsDir
    \/ NewLogFile
    \/ \E line \in LineSet : WriteLine(line)
    \/ Collect
    \/ \E level \in LevelFilters : Filter(level)

\* job j1 is submitted; its logs directory is not there yet
InitLogs == InitWatcher

SpecLogs == InitLogs /\ [][NextLogs]_vars

\* ============================================================== properties
\* where a run stands before it has called processor._process_grid_sheet()
PreStep == {"scheduled", "early", "db", "check2", "config", "check3"}

\* ---- C1
\* C1: once a job's persisted status is canceled, failed or complete, no
\* step of the orchestrator (its top-level exception handler included), of
\* cancel, of cancel-all or of recording the archive location changes the
\* status to a different value.
C1_TerminalIsFinal ==
    [][\A j \in DOMAIN jobs :
          jobs[j].status \in Terminal => jobs'[j].status = jobs[j].status]_vars

\* ---- C2
\* the edges of the documented state machine
AllowedEdges ==
    { <<"queued", "processing">>, <<"queued", "cancelling">>,
      <<"processing", "cancelling">>, <<"cancelling", "canceled">>,
      <<"processing", "failed">>, <<"processing", "complete">>,
      <<"queued", "canceled">> }

\* C2: every change of a job's persisted status is one of the edges
\* queued->processing, queued->cancelling, processing->cancelling (these
\* two by a cancel handler only), cancelling->canceled, processing->failed,
\* processing->complete, queued->canceled.
C2_OnlyDocumentedEdges ==
    [][\A j \in DOMAIN jobs :
          jobs'[j].status # jobs[j].status =>
             /\ <<jobs[j].status, jobs'[j].status>> \in AllowedEdges
             /\ jobs'[j].status = "cancelling" =>
                   req.op \in {"cancel", "cancel_all"}]_vars

\* ---- C3
\* C3 as stated: a run whose Event was set before it reached step 1 returns
\* with the persisted status canceled and a non-empty error, and has not
\* invoked step 1.
C3_AlwaysCanceled ==
    \A j \in JobIds :
       pc[j] = "done" /\ sig_pc[j] \in PreStep =>
          /\ jobs[j].status = "canceled"
          /\ Truthy(jobs[j].error) /\ jobs[j].error # None
          /\ invoked[j].step1 = 0

\* C3, amended: a run whose Event was set before it reached step 1 never
\* invokes step 1; when it returns, the last status it wrote is canceled
\* with a non-empty message, or failed because an exception came first; and
\* when its canceled write landed, the persisted status is canceled with
\* that message.
C3_CanceledIfWriteLands ==
    \A j \in JobIds :
       Ended(j) /\ sig_pc[j] \in PreStep =>
          /\ invoked[j].step1 = 0
          /\ pc[j] = "done" =>
                \/ /\ last_write[j].status = "canceled"
                   /\ Truthy(last_write[j].error) /\ last_write[j].error # None
                \/ last_write[j].status = "failed"
          /\ last_write[j].status = "canceled" /\ last_write[j].landed =>
                /\ jobs[j].status = "canceled"
                /\ jobs[j].error = last_write[j].error

\* a job cancelled while still queued has been run and is canceled
C3_Witness ==
    \E j \in JobIds :
       /\ pc[j] = "done" /\ sig_pc[j] = "scheduled"
       /\ jobs[j].status = "canceled"
       /\ jobs[j].error = <<"Canceled before start">>
       /\ invoked[j].step1 = 0

\* ---- C4
\* step 1 of job j's run handed back a dict whose "success" is False
Step1Refused(j) == step_out[j].step = 1 /\ step_out[j].success = "False"

\* C4 as stated: when step 1 returns success = False, the run returns with
\* the persisted status failed and has invoked neither step 2 nor the zip.
C4_AlwaysFailed ==
    \A j \in JobIds :
       pc[j] = "done" /\ Step1Refused(j) =>
          /\ jobs[j].status = "failed"
          /\ invoked[j].step2 = 0 /\ invoked[j].zip = 0

\* C4, amended: when step 1 returns success = False, the run invokes
\* neither step 2 nor the zip, the last status it writes is failed, and the
\* persisted status is failed when that write landed.
C4_FailedIfWriteLands ==
    \A j \in JobIds :
       Step1Refused(j) =>
          /\ invoked[j].step2 = 0 /\ invoked[j].zip = 0
          /\ pc[j] \in {"s1abort", "finally", "done"}
          /\ last_write[j].status = "failed"
          /\ pc[j] = "done" /\ last_write[j].landed => jobs[j].status = "failed"

\* a run has returned after step 1 refused, and the job is failed
C4_Witness ==
    \E j \in JobIds :
       /\ pc[j] = "done" /\ Step1Refused(j)
       /\ jobs[j].status = "failed"
       /\ invoked[j].step1 = 1 /\ invoked[j].step2 = 0

\* ---- C5
\* C5: when a step returned success = False with a non-empty list of
\* errors and the run has ended with the persisted status failed, the
\* persisted error holds every one of these error strings.
C5_ErrorsPersisted ==
    \A j \in JobIds :
       /\ pc[j] = "done"
       /\ step_out[j].success = "False" /\ step_out[j].errors # <<>>
       /\ jobs[j].status = "failed"
       => \A i \in 1..Len(step_out[j].errors) :
             Contains(jobs[j].error, step_out[j].errors[i])

\* ---- C6
\* C6: once the run of job j has ended, by return or by an exception
\* (one raised while the logger and the watcher are set up included), j is
\* no key of RUNNING_JOBS.
C6_NoLeak ==
    \A j \in JobIds : Ended(j) => j \notin RUNNING_JOBS

\* ---- C7
\* C7: update_status_safe never raises; when every attempt fails it returns
\* normally after `retries` attempts, and no step of the call has changed
\* the store.
C7_NeverRaises ==
    /\ [](/\ upd.pc # "raised"
          /\ upd.pc = "returned" /\ ~upd.landed => upd.tries = retries)
    /\ [][upd' # upd /\ ~upd'.landed => jobs' = jobs]_vars

\* a call has returned after the store refused every attempt
C7_Witness ==
    /\ upd.pc = "returned" /\ ~upd.landed /\ upd.tries = retries
    /\ upd.job_id \in DOMAIN jobs
    /\ jobs[upd.job_id].status # upd.status

\* ---- C8
\* C8: update_status_safe terminates: it makes at least one and at most
\* `retries` attempts, stops at the first attempt that succeeds, and returns
\* after the last attempt however long the store stays busy.
C8_Terminates ==
    /\ [](/\ upd.tries <= retries
          /\ upd.pc = "returned" => upd.tries >= 1
          /\ upd.pc = "attempt" => ~upd.landed /\ upd.tries < retries
          /\ upd.landed => upd.pc = "returned")
    /\ [][upd.pc = "returned" /\ upd' # upd => upd'.tries = 0]_vars
    /\ (upd.pc = "attempt" ~> upd.pc = "returned")

\* a call has returned at its first success, after some refused attempts
C8_Witness ==
    /\ upd.pc = "returned" /\ upd.landed
    /\ upd.tries > 1 /\ upd.tries < retries
    /\ jobs[upd.job_id].status = upd.status

C10_GuardedCancel ==
    [][req' # req =>
          \A j \in DOMAIN jobs :
             /\ jobs'[j].error = jobs[j].error
             /\ jobs'[j].status # jobs[j].status =>
                   /\ jobs[j].status \in {"queued", "processing"}
                   /\ jobs'[j].status = "cancelling"]_vars

\* cancel-all has run its UPDATE against a row that was already terminal
C10_Witness ==
    /\ resp.op = "cancel_all" /\ resp.code = 200
    /\ \E j \in resp.job_ids : jobs[j].status \in Terminal

\* ---- C11
\* C11: cancel_all answers with the count and the ids of the registered
\* jobs, the Event of each of them is set when it answers, and each of them
\* is cancelling or canceled once its run has returned (none stays queued
\* or processing, none ends complete).
C11_SweptAreCancelled ==
    /\ resp.op = "cancel_all" /\ resp.code = 200 =>
          /\ resp.count = Cardinality(resp.job_ids)
          /\ \A j \in resp.job_ids : cancel_event[j]
    /\ \A j \in swept :
          pc[j] = "done" => jobs[j].status \in {"cancelling", "canceled"}

\* ---- C12
\* C12: once the watcher's error_message is not None, no later logger event
\* and no later rescan changes it.
C12_FirstWins ==
    [][watcher["j1"] # None => watcher'["j1"] = watcher["j1"]]_vars

\* ---- C13
\* C13: after the watcher has handled a logger event at ERROR or CRITICAL,
\* whatever its message (the empty one included), error_message is not
\* None.
C13_SevereLatches ==
    wop # <<>> /\ LastCall.op = "emit" /\ LastCall.level \in {LvError, LvCritical}
       => watcher["j1"] # None

\* a CRITICAL event with an empty message was the first thing handled
C13_Witness ==
    /\ Len(wop) = 1
    /\ LastCall = WCall("emit", LvCritical, <<>>, TRUE)
    /\ watcher["j1"] = <<>>

\* ---- C14
\* C14: a rescan that follows a rescan of the same file leaves the watcher
\* as the first one left it, and a rescan of a watcher whose error_message
\* is not None changes nothing.
C14_ScanIdempotent ==
    [][\A readable \in BOOLEAN :
          wop' = Append(wop, WCall("scan", "", <<>>, readable)) =>
             /\ watcher["j1"] # None => watcher'["j1"] = watcher["j1"]
             /\ wop # <<>> /\ LastCall = WCall("scan", "", <<>>, readable) =>
                   watcher'["j1"] = watcher["j1"]]_vars

\* ---- C15
\* C15: when the watcher is latched by the time step 1 returns success,
\* the run does not invoke step 2, and it ends failed with an error that
\* holds the latched message.
C15_FailFastAfterStep1 ==
    \A j \in JobIds :
       /\ step_out[j].step = 1 /\ step_out[j].success = "True"
       /\ Truthy(step_out[j].latched)
       => /\ invoked[j].step2 = 0
          /\ pc[j] = "done" /\ last_write[j].landed =>
                /\ jobs[j].status = "failed"
                /\ \A i \in 1..Len(step_out[j].latched) :
                      Contains(jobs[j].error, step_out[j].latched[i])

\* ---- C16
\* the write that the handler of an exception issued is a failed write
\* whose error is the text of the exception
ExcRecordedAsIs(j) ==
    /\ last_write[j].status = "failed"
    /\ last_write[j].error = last_write[j].exc

\* the handler around zip_directory puts "Zipping failed: " before the text
ExcRecordedByZip(j) ==
    /\ last_write[j].status = "failed"
    /\ last_write[j].error = <<"Zipping failed: ">> \o last_write[j].exc
    /\ invoked[j].zip = 1

\* the handler around the LUTAssetTypes lookup records a warning and the
\* run goes on
ExcRecordedByLookup(j) ==
    /\ last_write[j].status = "processing"
    /\ last_write[j].error =
          <<"Warning: could not load LUTAssetTypes from DB - ">> \o last_write[j].exc
    /\ last_write[j].landed => jobs[j].status \in {"processing", "cancelling"}

\* C16 as stated: after an exception inside the try block of the run, the
\* run has not crashed and its last status write is failed with the text
\* of the exception as the error.
C16_FailedWithExcText ==
    \A j \in JobIds :
       last_write[j].exc # None =>
          /\ pc[j] # "crashed"
          /\ ExcRecordedAsIs(j)

\* C16 (amended): after an exception inside the try block the run has not
\* crashed; the write of its handler is failed with the text of the
\* exception, or failed with "Zipping failed: " before that text when
\* zip_directory raised, or processing with a warning when the optional
\* lookup raised; a failed write that landed is what the record holds.
C16_ExcIsRecorded ==
    \A j \in JobIds :
       last_write[j].exc # None =>
          /\ pc[j] # "crashed"
          /\ ExcRecordedAsIs(j) \/ ExcRecordedByZip(j) \/ ExcRecordedByLookup(j)
          /\ last_write[j].status = "failed" =>
                /\ pc[j] \in {"finally", "done"}
                /\ last_write[j].landed =>
                      /\ jobs[j].status = "failed"
                      /\ jobs[j].error = last_write[j].error

\* the recording of the archive location raised after complete had landed,
\* and the record ends failed with the text of that exception
C16_Witness ==
    /\ pc["j1"] = "done"
    /\ invoked["j1"].zip = 1
    /\ last_write["j1"].exc = <<"database is locked">>
    /\ last_write["j1"].landed
    /\ jobs["j1"].status = "failed"
    /\ jobs["j1"].error = <<"database is locked">>

\* ---- C17
\* C17: when a step hands back something that is no dict, or a dict with
\* no "success" entry, the run does not crash, its last write is failed
\* with a non-empty error, no later step is invoked, and a write that
\* landed leaves the record failed with a non-empty error.
C17_MalformedReturnFails ==
    \A j \in JobIds :
       step_out[j].success \in {"nodict", "missing"} =>
          /\ pc[j] # "crashed"
          /\ last_write[j].status = "failed"
          /\ Truthy(last_write[j].error) /\ last_write[j].error # None
          /\ invoked[j].zip = 0
          /\ step_out[j].step = 1 => invoked[j].step2 = 0
          /\ last_write[j].landed =>
                jobs[j].status = "failed" /\ Truthy(jobs[j].error)

\* ---- C18
\* the Event of job j was first set while step 1 was running, and step 1
\* returned success
SignalledInStep1(j) ==
    /\ sig_pc[j] = "step1"
    /\ step_out[j].step = 1 /\ step_out[j].success = "True"

\* C18 as stated: a run signalled while step 1 was executing never invokes
\* step 2, and when step 1 returned success the run ends with the
\* persisted status canceled.
C18_AlwaysCanceled ==
    \A j \in JobIds :
       /\ sig_pc[j] = "step1" => invoked[j].step2 = 0
       /\ pc[j] = "done" /\ SignalledInStep1(j) => jobs[j].status = "canceled"

\* C18 (amended): a run signalled while step 1 was executing still gets
\* the return of step 1 and never invokes step 2 or the zip; when step 1
\* returned success, the check before step 2 ends the run with the write
\* canceled "Canceled before export", and when that write landed the
\* persisted status is canceled.
C18_CanceledIfWriteLands ==
    \A j \in JobIds :
       sig_pc[j] = "step1" =>
          /\ invoked[j].step2 = 0 /\ invoked[j].zip = 0
          /\ pc[j] \in {"finally", "done"} => step_out[j].step = 1
          /\ pc[j] \in {"finally", "done"} /\ SignalledInStep1(j) =>
                /\ last_write[j].status = "canceled"
                /\ last_write[j].error = <<"Canceled before export">>
                /\ last_write[j].landed =>
                      /\ jobs[j].status = "canceled"
                      /\ jobs[j].error = <<"Canceled before export">>

\* a job cancelled during step 1, whose step 1 returned success, is canceled
C18_Witness ==
    /\ pc["j1"] = "done"
    /\ SignalledInStep1("j1")
    /\ invoked["j1"] = [NoSteps EXCEPT !.step1 = 1]
    /\ jobs["j1"].status = "canceled"
    /\ jobs["j1"].error = <<"Canceled before export">>

\* ---- C19
\* C19: a record whose result_zip_path is set has the status complete, and
\* the run's last status write was a complete that landed.
C19_ZipOnlyWhenComplete ==
    \A j \in DOMAIN jobs :
       jobs[j].result_zip_path # None =>
          /\ jobs[j].status = "complete"
          /\ last_write[j].status = "complete" /\ last_write[j].landed

\* a finished run whose record holds the archive location; a cancel had
\* set its Event after the last check
C19_Witness ==
    /\ pc["j1"] = "done"
    /\ cancel_event["j1"]
    /\ jobs["j1"].result_zip_path = <<"results.zip">>
    /\ jobs["j1"].status = "complete"

\* ---- C20
\* C20: no write to a job's record lowers its updated_at, also when a
\* status write of the run, whose now_ was taken before its attempts, comes
\* after the UPDATE of a cancel handler.
C20_UpdatedAtMonotone ==
    [][\A j \in DOMAIN jobs :
          jobs'[j].updated_at >= jobs[j].updated_at]_vars

\* ---- C21
\* C21: once a record holds a terminal status and an error text, no later
\* step changes that error text.
C21_ErrorWrittenOnce ==
    [][\A j \in DOMAIN jobs :
          jobs[j].status \in Terminal /\ jobs[j].error # None =>
             jobs'[j].error = jobs[j].error]_vars

\* ---- C22
\* C22: a status query for an id with no record answers 404; one for an id
\* with a record answers 200 with the record's status and error, also when
\* the logs could not be collected.
C22_StatusQueryAnswers ==
    resp.op = "status" =>
       IF resp.job \in DOMAIN jobs
       THEN /\ resp.code = 200
            /\ resp.status = jobs[resp.job].status
            /\ resp.error = jobs[resp.job].error
       ELSE resp.code = 404

\* ---- C23
\* C23: when submit answers with a job id, the record of that id exists
\* with the status queued and its Event is registered, and the run has not
\* taken a step; a status query for a submitted id never answers 404.
C23_SubmittedIsKnown ==
    /\ resp.op = "submit" =>
          /\ resp.job \in DOMAIN jobs
          /\ jobs[resp.job].status = "queued"
          /\ resp.job \in RUNNING_JOBS /\ ~cancel_event[resp.job]
          /\ pc[resp.job] = "scheduled"
    /\ \A j \in JobIds : pc[j] # "none" => j \in DOMAIN jobs
    /\ resp.op = "status" /\ pc[resp.job] # "none" => resp.code # 404

\* a query for a job that is submitted and not yet started, after another
\* job has run, is answered with queued
C23_Witness ==
    /\ resp.op = "status" /\ resp.job = "j2"
    /\ resp.code = 200 /\ resp.status = "queued"
    /\ pc["j2"] = "scheduled"
    /\ pc["j1"] = "done"

\* ---- C24
\* C24: a step of the run of job j leaves the record of every other job,
\* its registry entry and its Event as they were.
C24_RunTouchesOwnJobOnly ==
    [][\A j \in JobIds :
          pc[j] # "none" /\ pc'[j] # pc[j] =>
             \A k \in JobIds \ {j} :
                /\ k \in DOMAIN jobs =>
                      k \in DOMAIN jobs' /\ jobs'[k] = jobs[k]
                /\ k \in DOMAIN jobs' => k \in DOMAIN jobs
                /\ (k \in RUNNING_JOBS') = (k \in RUNNING_JOBS)
                /\ cancel_event'[k] = cancel_event[k]]_vars

\* the run of j1 ended after an exception while j2 is inside step 1 with
\* its record processing and its Event registered
C24_Witness ==
    /\ pc["j1"] = "done" /\ last_write["j1"].exc # None
    /\ jobs["j1"].status = "failed"
    /\ pc["j2"] = "step1" /\ jobs["j2"].status = "processing"
    /\ RUNNING_JOBS = {"j2"}

\* ---- C25
\* C25: step 1 is invoked when nothing has been invoked yet, step 2 when
\* the last return is a success of step 1 and step 2 has not been invoked,
\* the zip when the last return is a success of step 2 and the zip has not
\* been invoked; so each is invoked at most once and in this order.
C25_StepsInOrderOnce ==
    [][\A j \in JobIds :
          /\ invoked'[j].step1 # invoked[j].step1 =>
                /\ invoked[j] = NoSteps
                /\ invoked'[j] = [NoSteps EXCEPT !.step1 = 1]
          /\ invoked'[j].step2 # invoked[j].step2 =>
                /\ invoked[j] = [NoSteps EXCEPT !.step1 = 1]
                /\ invoked'[j] = [NoSteps EXCEPT !.step1 = 1, !.step2 = 1]
                /\ step_out[j].step = 1 /\ step_out[j].success = "True"
          /\ invoked'[j].zip # invoked[j].zip =>
                /\ invoked[j] = [NoSteps EXCEPT !.step1 = 1, !.step2 = 1]
                /\ invoked'[j] = [step1 |-> 1, step2 |-> 1, zip |-> 1]
                /\ step_out[j].step = 2 /\ step_out[j].success = "True"]_vars

\* a run that went through step 1, step 2 and the zip, once each, and
\* whose record is complete
C25_Witness ==
    /\ pc["j1"] = "done"
    /\ invoked["j1"] = [step1 |-> 1, step2 |-> 1, zip |-> 1]
    /\ step_out["j1"].step = 2 /\ step_out["j1"].success = "True"
    /\ jobs["j1"].status = "complete"

Buckets == {"info", "warning", "error"}

\* the newest file, its name, its last line, and the directory as it was
\* before that line was written
NewestFile == classifier.files[Len(classifier.files)]

NewestName == FileNames[Len(classifier.files)]

NewestLine == NewestFile[Len(NewestFile)]

FilesBefore ==
    [classifier.files EXCEPT ![Len(classifier.files)] =
        SubSeq(@, 1, Len(@) - 1)]

\* the classifier has run on a directory whose newest file has a last line
Collected ==
    /\ classifier.phase = "collected" /\ classifier.dir
    /\ classifier.files # <<>> /\ NewestFile # <<>>

\* a non-blank line that matches no grammar and holds neither word
Bare(line) ==
    /\ ~RE_PIPE(line) /\ ~RE_DASH(line) /\ ~Blank(line)
    /\ ~InLower("error", line) /\ ~InLower("warning", line)

\* the bucket of the entry a line creates, "" when it creates none by itself
BucketOfLine(line) ==
    IF RE_PIPE(line) \/ RE_DASH(line)
    THEN (IF line[3] \in {"ERROR", "CRITICAL"} THEN "error"
          ELSE IF line[3] = "WARNING" THEN "warning" ELSE "info")
    ELSE IF Blank(line) THEN ""
    ELSE IF InLower("error", line) THEN "error"
    ELSE IF InLower("warning", line) THEN "warning"
    ELSE ""

\* C27: a bare line written after an entry of the same file adds no entry;
\* it is joined, after a newline, to the message of one entry of that file,
\* the one the line just before it created when that line created one.  A
\* bare line with no entry of its file before it becomes an INFO entry with
\* the source "raw".
C27_BareLineContinues ==
    Collected /\ Bare(NewestLine) =>
       LET A == collect_logs_grouped_all(TRUE, FilesBefore)
           B == classifier.out
           n == Len(NewestFile)
       IN  IF \E b \in Buckets : \E i \in 1..Len(A[b]) : A[b][i].file = NewestName
           THEN \E b \in Buckets : \E i \in 1..Len(A[b]) :
                   /\ A[b][i].file = NewestName
                   /\ B = [A EXCEPT ![b][i].msg = @ \o <<"\n">> \o NewestLine]
                   /\ n > 1 /\ BucketOfLine(NewestFile[n - 1]) # "" =>
                         b = BucketOfLine(NewestFile[n - 1]) /\ i = Len(A[b])
           ELSE B = [A EXCEPT !.info =
                       Append(@, LogEntry("mtime", "INFO", "raw", NewestLine,
                                          NewestName))]

\* "... | INFO | x | hello" followed by "continued" is one INFO entry with
\* the message "hello\ncontinued"
C27_Witness ==
    /\ classifier.phase = "collected"
    /\ classifier.files =
          << << <<"2025-01-01 00:00:00,000", "|", "INFO", "|", "x", "|", "hello">>,
                <<"continued">> >> >>
    /\ Len(classifier.out.info) = 1
    /\ classifier.out.info[1].level = "INFO"
    /\ classifier.out.info[1].msg = <<"hello", "\n", "continued">>
    /\ classifier.out.warning = <<>> /\ classifier.out.error = <<>>

\* ---- C28
\* C28: a non-blank line that matches no grammar and holds "error" in any
\* letter case adds exactly one entry, at the end of the error bucket, with
\* the level ERROR and the source "raw", and changes nothing else; so also
\* when the line holds "warning" too.
C28_RawErrorLine ==
    /\ Collected
    /\ ~RE_PIPE(NewestLine) /\ ~RE_DASH(NewestLine) /\ ~Blank(NewestLine)
    /\ InLower("error", NewestLine)
    => classifier.out =
          [collect_logs_grouped_all(TRUE, FilesBefore) EXCEPT !.error =
              Append(@, LogEntry("mtime", "ERROR", "raw", NewestLine, NewestName))]

\* a raw line with "Error" and "Warning" after a structured line is the
\* second entry of the error bucket, and the warning bucket is empty
C28_Witness ==
    /\ classifier.phase = "collected"
    /\ classifier.files =
          << << <<"2025-01-01 00:00:01,000", "-", "ERROR", "-", "boom">>,
                <<"Error", " and ", "Warning", " in tool">> >> >>
    /\ Len(classifier.out.error) = 2
    /\ classifier.out.error[2] =
          LogEntry("mtime", "ERROR", "raw",
                   <<"Error", " and ", "Warning", " in tool">>, "log_1.txt")
    /\ classifier.out.warning = <<>> /\ classifier.out.info = <<>>

\* ---- C29
\* C29: when the logs directory is missing or holds no candidate file, the
\* classifier returns three empty buckets and a non-empty note.
C29_NoFilesGivesNote ==
    /\ classifier.phase = "collected"
    /\ ~classifier.dir \/ classifier.files = <<>>
    => /\ \A b \in Buckets : classifier.out[b] = <<>>
       /\ Truthy(classifier.out.note)

\* ---- C30
\* C30: the view for info, warning or error holds that bucket of what was
\* collected, two empty buckets and the same note; the view for all is what
\* was collected.
C30_FilterKeepsOneBucket ==
    classifier.phase = "filtered" =>
       IF classifier.level = "all"
       THEN classifier.view = classifier.out
       ELSE /\ classifier.level \in Buckets
            /\ classifier.view[classifier.level] = classifier.out[classifier.level]
            /\ \A b \in Buckets \ {classifier.level} : classifier.view[b] = <<>>
            /\ classifier.view.note = classifier.out.note

\* entries in all three buckets, filtered by warning
C30_Witness ==
    /\ classifier.phase = "filtered" /\ classifier.level = "warning"
    /\ \A b \in Buckets : classifier.out[b] # <<>>
    /\ classifier.view.warning = classifier.out.warning
    /\ classifier.view.info = <<>> /\ classifier.view.error = <<>>

\* ---- C31
\* C31: a download request for a job whose run has made no archive, a job
\* never submitted included, is answered with 404.
C31_DownloadWithoutArchive ==
    /\ resp.op = "download" /\ resp.job \in JobIds
    /\ invoked[resp.job].zip = 0
    => resp.code = 404

\* ---- C32
\* C32: an event below ERROR whose message does not match the pattern
\* "ERROR <code>: <text>" leaves a clean watcher clean, whether or not the
\* message holds the word "error".
C32_BareWordDoesNotLatch ==
    [][\A level \in {LvInfo, LvWarning}, msg \in LogMsgs :
          /\ watcher["j1"] = None
          /\ ~RE_ARCGIS_ERR(msg)
          /\ wop' = Append(wop, WCall("emit", level, msg, TRUE))
          => watcher'["j1"] = None]_vars

\* ---- C33
\* the run of job j takes the step that holds the fail-fast check before
\* the zip
PreZipCheck(j) == pc[j] = "prezip" /\ pc'[j] # "prezip"

\* that step ends the run: failed is written with an error that holds the
\* message msg, nothing is zipped, no archive location is recorded
AbortedBeforeZip(j, msg) ==
    /\ pc'[j] = "finally"
    /\ invoked'[j] = invoked[j]
    /\ last_write'[j].status = "failed"
    /\ \A i \in 1..Len(msg) : Contains(last_write'[j].error, msg[i])
    /\ jobs'[j].status # "complete"
    /\ jobs'[j].result_zip_path = None

\* C33 as stated: when the watcher is latched or the log file holds an error
\* pattern at the check before the zip, the run writes failed with the
\* latched message and neither zips nor records an archive location.
C33_NoCompleteWithErrors ==
    [][\A j \in JobIds :
          PreZipCheck(j) /\ (watcher[j] # None \/ log_has_error[j]) =>
             AbortedBeforeZip(j, PyOr(watcher[j], <<"Error detected in log file">>))]_vars

\* C33 (amended): the same when the watcher is latched with a message, or
\* when the log file holds an error pattern and the rescan can read it.
C33_NoCompleteWithSeenErrors ==
    [][\A j \in JobIds :
          /\ PreZipCheck(j)
          /\ Truthy(watcher[j]) \/ (log_has_error[j] /\ scan_read'[j])
          => AbortedBeforeZip(j, PyOr(watcher[j], <<"Error detected in log file">>))]_vars

\* a run whose two steps returned success ended failed at the check before
\* the zip because the rescan found an error line in the log file
C33_Witness ==
    /\ pc["j1"] = "done"
    /\ invoked["j1"] = [NoSteps EXCEPT !.step1 = 1, !.step2 = 1]
    /\ scan_read["j1"]
    /\ jobs["j1"].status = "failed"
    /\ jobs["j1"].error = <<"before zip: ", "Fail-fast due to error in logs: ",
                            "Error detected in log file">>
    /\ jobs["j1"].result_zip_path = None

\* ---- C34
\* C34: a persisted status of cancelling is never overwritten with
\* processing.
C34_CancellingNotProcessing ==
    [][\A j \in DOMAIN jobs :
          jobs[j].status = "cancelling" => jobs'[j].status # "processing"]_vars

\* ---- C35
\* C35: once the persisted status is cancelling, the only status that
\* follows it is canceled.
C35_CancellingThenCanceled ==
    [][\A j \in DOMAIN jobs :
          jobs[j].status = "cancelling" =>
             jobs'[j].status \in {"cancelling", "canceled"}]_vars

\* ---- C36
\* the run of job j takes a step that starts with _abort_if_error
ScanStep(j) == pc[j] \in {"early", "s1abort", "prezip"} /\ pc'[j] # pc[j]

\* the step wrote the failure of a fail-fast abort
FailFastWritten(j) ==
    /\ last_write'[j].status = "failed"
    /\ Contains(last_write'[j].error, "Fail-fast due to error in logs: ")

\* C36: a rescan that cannot read the log file changes nothing and the
\* fail-fast check it belongs to does not fail the job; a watcher without a
\* log file is left as it is by every rescan.
C36_ReadFailureSwallowed ==
    [][\A j \in JobIds :
          /\ \A read_ok \in BOOLEAN :
               scan_file_once(watcher[j], log_has_error[j],
                              CanScan(None, read_ok)) = watcher[j]
          /\ ScanStep(j) /\ ~scan_read'[j] /\ ~Truthy(watcher[j]) =>
               /\ ~FailFastWritten(j)
               /\ scan_file_once(watcher[j], log_has_error[j], scan_read'[j])
                    = watcher[j]]_vars

\* the log file held an error line, the rescan before the zip could not
\* read it, and the run with its clean watcher went on to complete
C36_Witness ==
    /\ pc["j1"] = "complete"
    /\ ~scan_read["j1"]
    /\ log_has_error["j1"]
    /\ watcher["j1"] = None
    /\ invoked["j1"].zip = 1

\* ---- C37
\* C37: every record whose status is failed carries a non-empty error text.
C37_FailedHasErrorText ==
    \A j \in DOMAIN jobs :
       jobs[j].status = "failed" => Truthy(jobs[j].error)

\* ---- C38
\* C38: a run that entered its try block ends with a terminal status as the
\* last status it wrote, and when that write landed the persisted status
\* after the run is terminal.
C38_RunEndsTerminal ==
    \A j \in JobIds :
       pc[j] = "done" =>
          /\ last_write[j].status \in Terminal
          /\ last_write[j].landed => jobs[j].status \in Terminal

\* a run was cancelled before its first step and its canceled write landed
C38_Witness ==
    /\ pc["j1"] = "done"
    /\ last_write["j1"].status = "canceled"
    /\ last_write["j1"].landed
    /\ jobs["j1"].status = "canceled"
    /\ invoked["j1"] = NoSteps

\* ---- C39
\* C39: when cancel answers "cancelling" for a job, the persisted status of
\* that job is cancelling or canceled, never complete or failed.
C39_CancellingAnswerMatchesStore ==
    /\ resp.op = "cancel" /\ resp.code = 200 /\ resp.status = "cancelling"
    /\ resp.job \in DOMAIN jobs
    => jobs[resp.job].status \in {"cancelling", "canceled"}

\* ---- C40
\* C40: in the answer of list-all the download reference of a job is null
\* unless its status is complete, and a reference that is present is built
\* from that job's own output directory.
C40_DownloadUrlIsOwn ==
    resp.op = "list" /\ resp.code = 200 =>
       \A i \in 1..Len(resp.items) :
          LET item == resp.items[i]
          IN  /\ item.status # "complete" => item.download_url = None
              /\ item.download_url # None =>
                    item.download_url = DownloadPath(item.job_id)

====
